---- MODULE Spec2Model ----
(***************************************************************************)
(* Sliding-window epitope inference engine of vmercel/epipred.             *)
(*                                                                         *)
(* The model follows src/app/model_predictor.py (class EpitopePredictor)   *)
(* and the prediction loop of src/app/app.py.  Strings are sequences of    *)
(* one-character strings.  Probabilities and thresholds are fixed-point    *)
(* numbers in tenths (5 stands for 0.5, One for 1.0).                      *)
(***************************************************************************)
EXTENDS Integers, Sequences, FiniteSets, TLC

(***************************************************************************)
(* Bounds of the model                                                     *)
(***************************************************************************)
\* largest number of windows of one predict_epitopes call
MaxWindows == 2
\* largest length of a submitted sequence
MaxLen == 22

(***************************************************************************)
(* Generic helpers                                                         *)
(***************************************************************************)
Range(s) == {s[k] : k \in 1..Len(s)}

Min(a, b) == IF a <= b THEN a ELSE b

Max(a, b) == IF a >= b THEN a ELSE b

\* Python's None, and Some(v) for a present value
None == <<>>

Some(v) == <<v>>

\* mutant: the slice takes one element more, s[a:b+1]
SliceInclusive(s, a, b) == SubSeq(s, a + 1, Min(b + 1, Len(s)))

\* Python's s[a:b] for 0 <= a, with the end clamped to len(s)
Slice(s, a, b) == SubSeq(s, a + 1, Min(b, Len(s)))

(***************************************************************************)
(* Characters                                                              *)
(***************************************************************************)
LowerLetters ==
    <<"a","b","c","d","e","f","g","h","i","j","k","l","m",
      "n","o","p","q","r","s","t","u","v","w","x","y","z">>

UpperLetters ==
    <<"A","B","C","D","E","F","G","H","I","J","K","L","M",
      "N","O","P","Q","R","S","T","U","V","W","X","Y","Z">>

\* str.upper() on one character
Upper(c) ==
    IF c \in Range(LowerLetters)
    THEN UpperLetters[CHOOSE k \in 1..Len(LowerLetters) : LowerLetters[k] = c]
    ELSE c

Digits == <<"0","1","2","3","4","5","6","7","8","9">>

\* str(n) of a natural number, as in the f-string of pos_range
RECURSIVE IntToStr(_)
IntToStr(n) ==
    IF n < 10 THEN <<Digits[n + 1]>>
    ELSE IntToStr(n \div 10) \o <<Digits[(n % 10) + 1]>>

\* int(s) of a string of decimal digits
RECURSIVE StrToInt(_)
StrToInt(s) ==
    IF Len(s) = 0 THEN 0
    ELSE 10 * StrToInt(SubSeq(s, 1, Len(s) - 1))
         + (CHOOSE d \in 0..9 : Digits[d + 1] = s[Len(s)])

\* s.split(sep) for a one-character separator
RECURSIVE Split(_, _)
Split(s, sep) ==
    IF \A k \in 1..Len(s) : s[k] # sep THEN <<s>>
    ELSE LET k == CHOOSE j \in 1..Len(s) :
                      s[j] = sep /\ \A h \in 1..(j - 1) : s[h] # sep
         IN  <<SubSeq(s, 1, k - 1)>> \o Split(SubSeq(s, k + 1, Len(s)), sep)

\* map(int, pos_range.split('-')) of get_sequence_markup
ParsePosRange(pos_range) ==
    LET parts == Split(pos_range, "-")
    IN  <<StrToInt(parts[1]), StrToInt(parts[2])>>

(***************************************************************************)
(* EpitopePredictor.__init__ : the tables and the parameters               *)
(***************************************************************************)
AminoLetters ==
    <<"A","C","D","E","F","G","H","I","K","L",
      "M","N","P","Q","R","S","T","V","W","Y">>

amino_acid_to_num ==
    [c \in Range(AminoLetters) \cup {"X"} |->
        IF c = "X" THEN 0
        ELSE CHOOSE k \in 1..Len(AminoLetters) : AminoLetters[k] = c]

class_mapping ==
    [B_cell_negative |-> 0, B_cell_positive |-> 1,
     T_cell_MHC_negative |-> 2, T_cell_MHC_positive |-> 3]

idx_to_class ==
    [v \in {class_mapping[k] : k \in DOMAIN class_mapping} |->
        CHOOSE k \in DOMAIN class_mapping : class_mapping[k] = v]

\* self.window_size = 20, self.step_size = 1, self.confidence_threshold = 0.5
DefaultWindowSize == 20

DefaultStepSize == 1

DefaultThreshold == 5

\* 1.0 in tenths
One == 10

(***************************************************************************)
(* encode_sequence                                                         *)
(***************************************************************************)
\* mutant: the character is looked up as it is, not upper-cased
encode_sequenceNoUpper(sequence) ==
    [k \in 1..Len(sequence) |->
        IF sequence[k] \in DOMAIN amino_acid_to_num
        THEN amino_acid_to_num[sequence[k]]
        ELSE 0]

encode_sequence(sequence) ==
    [k \in 1..Len(sequence) |->
        IF Upper(sequence[k]) \in DOMAIN amino_acid_to_num
        THEN amino_acid_to_num[Upper(sequence[k])]
        ELSE 0]

(***************************************************************************)
(* predict_epitopes, line 228: the cleaned sequence                        *)
(***************************************************************************)
RECURSIVE CleanSequence(_)
CleanSequence(sequence) ==
    IF sequence = <<>> THEN <<>>
    ELSE LET c == Upper(Head(sequence))
         IN  (IF c \in DOMAIN amino_acid_to_num THEN <<c>> ELSE <<>>)
             \o CleanSequence(Tail(sequence))

(***************************************************************************)
(* sliding_window_prediction, lines 153-161: window enumeration            *)
(***************************************************************************)
\* mutant: the range stops one start offset early
RECURSIVE PyRangeShort(_, _, _)
PyRangeShort(start, stop, step) ==
    IF start >= stop - 1 THEN <<>>
    ELSE <<start>> \o PyRangeShort(start + step, stop, step)

\* range(start, stop, step) for step >= 1, as a sequence
RECURSIVE PyRange(_, _, _)
PyRange(start, stop, step) ==
    IF start >= stop THEN <<>>
    ELSE <<start>> \o PyRange(start + step, stop, step)

\* positions: the (start, end_exclusive) pair of every window
Positions(sequence, W, s) ==
    LET starts == PyRange(0, Len(sequence) - W + 1, s)
    IN  [k \in 1..Len(starts) |-> <<starts[k], starts[k] + W>>]

\* subseq_list: the encoded windows, in the order of positions
SubseqList(sequence, W, s) ==
    LET pos == Positions(sequence, W, s)
    IN  [k \in 1..Len(pos) |->
            encode_sequence(Slice(sequence, pos[k][1], pos[k][2]))]

(***************************************************************************)
(* sliding_window_prediction, lines 185-198: the decision rule             *)
(***************************************************************************)
\* np.max(probs)
NpMax(probs) == CHOOSE m \in Range(probs) : \A k \in 1..Len(probs) : probs[k] <= m

\* np.argmax(probs): 0-based index of the first maximum
NpArgMax(probs) ==
    (CHOOSE k \in 1..Len(probs) :
        /\ probs[k] = NpMax(probs)
        /\ \A j \in 1..(k - 1) : probs[j] < NpMax(probs)) - 1

\* mutant: strict comparison with the threshold
AboveThresholdStrict(confidence, thr) == confidence > thr

\* mutant: the comparison is turned around
BelowThreshold(confidence, thr) == confidence <= thr

\* mutant: every window passes, whatever its confidence
AboveThresholdAlways(confidence, thr) == TRUE

\* line 191: confidence >= self.confidence_threshold
AboveThreshold(confidence, thr) == confidence >= thr

\* mutant: the display range starts at the 0-based offset
PosRangeZeroBased(start_pos, end_pos) ==
    IntToStr(start_pos) \o <<"-">> \o IntToStr(end_pos)

\* line 193: f"{start_pos+1}-{end_pos}"
PosRange(start_pos, end_pos) ==
    IntToStr(start_pos + 1) \o <<"-">> \o IntToStr(end_pos)

\* mutant: a window of either B-cell class goes to the B-cell list
ProcessWindowAnyBCell(lists, sequence, probs, pos, thr) ==
    LET predicted_class == NpArgMax(probs)
        confidence      == NpMax(probs)
        predicted_label == idx_to_class[predicted_class]
        sub_seq         == Slice(sequence, pos[1], pos[2])
        pos_range       == PosRange(pos[1], pos[2])
        call            == <<sub_seq, confidence, pos_range>>
    IN  IF AboveThreshold(confidence, thr)
        THEN IF predicted_label \in {"B_cell_positive", "B_cell_negative"}
             THEN <<Append(lists[1], call), lists[2]>>
             ELSE IF predicted_label = "T_cell_MHC_positive"
                  THEN <<lists[1], Append(lists[2], call)>>
                  ELSE lists
        ELSE lists

\* one iteration of the loop at line 185; lists = <<b_cell_epitopes, t_cell_epitopes>>
ProcessWindow(lists, sequence, probs, pos, thr) ==
    LET predicted_class == NpArgMax(probs)
        confidence      == NpMax(probs)
        predicted_label == idx_to_class[predicted_class]
        sub_seq         == Slice(sequence, pos[1], pos[2])
        pos_range       == PosRange(pos[1], pos[2])
        call            == <<sub_seq, confidence, pos_range>>
    IN  IF AboveThreshold(confidence, thr)
        THEN IF predicted_label = "B_cell_positive"
             THEN <<Append(lists[1], call), lists[2]>>
             ELSE IF predicted_label = "T_cell_MHC_positive"
                  THEN <<lists[1], Append(lists[2], call)>>
                  ELSE lists
        ELSE lists

(***************************************************************************)
(* predict_epitopes, lines 237-238: list.sort(key=x[1], reverse=True)      *)
(***************************************************************************)
\* insertion of one call behind every call whose confidence is not smaller
RECURSIVE InsertDesc(_, _)
InsertDesc(sorted, call) ==
    IF sorted = <<>> THEN <<call>>
    ELSE IF Head(sorted)[2] >= call[2]
         THEN <<Head(sorted)>> \o InsertDesc(Tail(sorted), call)
         ELSE <<call>> \o sorted

\* mutant: a call is inserted in front of the calls of equal confidence
RECURSIVE InsertDescUnstable(_, _)
InsertDescUnstable(sorted, call) ==
    IF sorted = <<>> THEN <<call>>
    ELSE IF Head(sorted)[2] > call[2]
         THEN <<Head(sorted)>> \o InsertDescUnstable(Tail(sorted), call)
         ELSE <<call>> \o sorted

RECURSIVE SortUnstable(_)
SortUnstable(list) ==
    IF list = <<>> THEN <<>>
    ELSE InsertDescUnstable(SortUnstable(SubSeq(list, 1, Len(list) - 1)), list[Len(list)])

\* the stable descending sort of Python's list.sort(reverse=True)
RECURSIVE SortByConfidence(_)
SortByConfidence(list) ==
    IF list = <<>> THEN <<>>
    ELSE InsertDesc(SortByConfidence(SubSeq(list, 1, Len(list) - 1)), list[Len(list)])

(***************************************************************************)
(* A whole call run on its own: the loop of lines 185-198 under one        *)
(* threshold, followed by the two sorts of lines 237-238                   *)
(***************************************************************************)
RECURSIVE ProcessPredictions(_, _, _, _, _)
ProcessPredictions(lists, sequence, predicted_probs, positions, thr) ==
    IF predicted_probs = <<>> \/ positions = <<>> THEN lists
    ELSE ProcessPredictions(
             ProcessWindow(lists, sequence, Head(predicted_probs), Head(positions), thr),
             sequence, Tail(predicted_probs), Tail(positions), thr)

PredictAlone(sequence, predicted_probs, positions, thr) ==
    LET lists == ProcessPredictions(<<<<>>, <<>>>>, sequence, predicted_probs, positions, thr)
    IN  <<SortByConfidence(lists[1]), SortByConfidence(lists[2])>>

(***************************************************************************)
(* Inputs                                                                  *)
(***************************************************************************)
\* the insulin A chain of test_model.py
InsulinA ==
    <<"G","I","V","E","Q","C","C","T","S","I","C","S","L","Y","Q","L","E","N","Y","C","N">>

\* a text with a digit (not in the table), the unknown letter X and lower case
Mixed ==
    <<"k","1","L","X","w","R","S","T","V","Y","A","C","D","E","F","G","H","M","N","P","Q","I">>

Motifs == {InsulinA, Mixed}

\* the text of length n that repeats a motif
Pattern(motif, n) == [k \in 1..n |-> motif[((k - 1) % Len(motif)) + 1]]

\* probability vectors the classifier may return for one window (tenths)
ProbVectors ==
    { <<0, 9, 1, 0>>,      \* B_cell_positive 0.9
      <<2, 6, 1, 1>>,      \* B_cell_positive 0.6
      <<1, 0, 0, 9>>,      \* T_cell_MHC_positive 0.9
      <<1, 1, 2, 6>>,      \* T_cell_MHC_positive 0.6
      <<0, 5, 0, 5>>,      \* two maxima of 0.5: arg-max is B_cell_positive
      <<9, 1, 0, 0>> }     \* B_cell_negative 0.9

\* all outputs of the classifier for a batch of n windows
RECURSIVE ProbBatches(_)
ProbBatches(n) ==
    IF n = 0 THEN {<<>>}
    ELSE {Append(b, v) : b \in ProbBatches(n - 1), v \in ProbVectors}

\* values of the attributes window_size and step_size a predictor is run with
WindowSizes == {3, DefaultWindowSize}

StepSizes == {DefaultStepSize, 2}

\* threshold values callers pass (tenths); -1 and 11 lie outside [0, 1]
ThresholdValues == {-1, 5, 9, 11}

ThresholdArgs == {None} \cup {Some(v) : v \in ThresholdValues}

Threads == {1, 2}

MainThread == 1

(***************************************************************************)
(* State                                                                   *)
(***************************************************************************)
VARIABLES
    confidence_threshold,   \* EpitopePredictor.confidence_threshold (shared)
    window_size,            \* EpitopePredictor.window_size
    step_size,              \* EpitopePredictor.step_size
    frame,                  \* per thread: the locals of its predict_epitopes call
    set_call,               \* the last set_confidence_threshold call and its outcome
    req_pc,                 \* app.predict: position of the request handler
    sequences,              \* app.predict: name -> sequence, in insertion order
    seq_index,              \* app.predict: position of the loop over sequences.items()
    results,                \* app.predict: name -> result of a successful prediction
    failed_sequences,       \* app.predict: names whose prediction raised
    outcomes,               \* history: what the classifier did for each sequence
    results_files,          \* the stored <job_id>_results.json files
    response,               \* app.predict: what the handler answered
    encode_call,            \* an encode_sequence call: argument and returned list
    markup_call,            \* a get_sequence_markup call: arguments and returned string
    fasta_call,             \* a parse_fasta_text call: text, returned dict, validation
    download_call           \* a download_results request: job id, format, answer

appvars == <<req_pc, sequences, seq_index, results, failed_sequences,
             outcomes, results_files, response>>

purevars == <<encode_call, markup_call, fasta_call, download_call>>

vars == <<confidence_threshold, window_size, step_size, frame, set_call, appvars,
          purevars>>

IdleFrame ==
    [pc |-> "idle", sequence |-> <<>>, threshold |-> None,
     original_threshold |-> None, clean_sequence |-> <<>>,
     positions |-> <<>>, subseq_list |-> <<>>, predicted_probs |-> <<>>,
     i |-> 0, b_cell_epitopes |-> <<>>, t_cell_epitopes |-> <<>>,
     result |-> None, raised |-> FALSE, model_calls |-> 0, entry_threshold |-> 0]

\* no call of the three helper functions has been made
NoEncodeCall == [sequence |-> <<>>, result |-> None]

NoMarkupCall ==
    [sequence |-> <<>>, epitopes |-> <<>>, epitope_type |-> "B-cell", result |-> None]

NoFastaCall == [lines |-> <<>>, text |-> <<>>, result |-> None, errors |-> None]

NoDownloadCall ==
    [job_id |-> None, format |-> None, at |-> "none", outcome |-> "none", data |-> None]

\* the predictor after __init__, no call in progress
PredictorConstructed ==
    /\ confidence_threshold = DefaultThreshold
    /\ window_size \in WindowSizes
    /\ step_size \in StepSizes
    /\ frame = [t \in Threads |-> IdleFrame]
    /\ set_call = [threshold |-> None, outcome |-> "none"]

\* no request has been received
NoRequest ==
    /\ req_pc = "idle"
    /\ sequences = <<>>
    /\ seq_index = 0
    /\ results = <<>>
    /\ failed_sequences = <<>>
    /\ outcomes = <<>>
    /\ results_files = {}
    /\ response = "none"

Init ==
    /\ PredictorConstructed
    /\ NoRequest
    /\ encode_call = NoEncodeCall
    /\ markup_call = NoMarkupCall
    /\ fasta_call = NoFastaCall
    /\ download_call = NoDownloadCall

NotInCall(t) == frame[t].pc = "idle"

(***************************************************************************)
(* predict_epitopes(sequence, threshold)                                   *)
(***************************************************************************)
\* lines 219-222: entry; with an override the current threshold is saved
EnterCall(t, sequence, threshold) ==
    /\ NotInCall(t)
    /\ Len(Positions(sequence, window_size, step_size)) <= MaxWindows
    /\ frame' = [frame EXCEPT ![t] =
            [IdleFrame EXCEPT
                !.pc = IF threshold = None THEN "try" ELSE "set",
                !.sequence = sequence,
                !.threshold = threshold,
                !.original_threshold =
                    IF threshold = None THEN None ELSE Some(confidence_threshold),
                !.entry_threshold = confidence_threshold]]
    /\ UNCHANGED <<confidence_threshold, window_size, step_size, set_call>>

\* a direct call of predict_epitopes (test_model.py line 46, or any client)
Call(t, sequence, threshold) ==
    /\ EnterCall(t, sequence, threshold)
    /\ UNCHANGED <<appvars, purevars>>

\* line 223: self.confidence_threshold = threshold
SetOverride(t) ==
    /\ frame[t].pc = "set"
    /\ confidence_threshold' = frame[t].threshold[1]
    /\ frame' = [frame EXCEPT ![t].pc = "try"]
    /\ UNCHANGED <<window_size, step_size, set_call, appvars, purevars>>

\* mutant: a sequence without a window is reported as an error
EarlyReturnRaises(t) ==
    /\ frame[t].pc = "try"
    /\ LET clean == CleanSequence(frame[t].sequence)
       IN  /\ \/ Len(clean) < window_size
              \/ SubseqList(clean, window_size, step_size) = <<>>
           /\ frame' = [frame EXCEPT
                  ![t].clean_sequence = clean,
                  ![t].raised = TRUE,
                  ![t].pc = "finally"]
    /\ UNCHANGED <<confidence_threshold, window_size, step_size, set_call, appvars, purevars>>

\* lines 228-234 and 146-165: cleaning, then the early return of
\* sliding_window_prediction without a window; the empty lists are sorted
\* and returned (lines 237-242)
EarlyReturn(t) ==
    /\ frame[t].pc = "try"
    /\ LET clean == CleanSequence(frame[t].sequence)
       IN  /\ \/ Len(clean) < window_size
              \/ SubseqList(clean, window_size, step_size) = <<>>
           /\ frame' = [frame EXCEPT
                  ![t].clean_sequence = clean,
                  ![t].result = Some(<<SortByConfidence(<<>>), SortByConfidence(<<>>)>>),
                  ![t].pc = "finally"]
    /\ UNCHANGED <<confidence_threshold, window_size, step_size, set_call, appvars, purevars>>

\* lines 228-234 and 153-170: cleaning and window enumeration; the batch
\* holds every encoded window in the order of positions
Enumerate(t) ==
    /\ frame[t].pc = "try"
    /\ LET clean == CleanSequence(frame[t].sequence)
           batch == SubseqList(clean, window_size, step_size)
       IN  /\ Len(clean) >= window_size
           /\ batch # <<>>
           /\ frame' = [frame EXCEPT
                  ![t].clean_sequence = clean,
                  ![t].positions = Positions(clean, window_size, step_size),
                  ![t].subseq_list = batch,
                  ![t].pc = "predict"]
    /\ UNCHANGED <<confidence_threshold, window_size, step_size, set_call, appvars, purevars>>

\* mutant: the classifier is called once per window
ClassifyPerWindow(t, probs) ==
    /\ frame[t].pc = "predict"
    /\ Len(probs) = Len(frame[t].subseq_list)
    /\ frame' = [frame EXCEPT
           ![t].model_calls = @ + Len(frame[t].subseq_list),
           ![t].predicted_probs = probs,
           ![t].i = 1,
           ![t].pc = "loop"]
    /\ UNCHANGED <<confidence_threshold, window_size, step_size, set_call, appvars, purevars>>

\* lines 176-182: the one classifier call on the whole batch, which returns
\* one probability vector per window
Classify(t, probs) ==
    /\ frame[t].pc = "predict"
    /\ Len(probs) = Len(frame[t].subseq_list)
    /\ frame' = [frame EXCEPT
           ![t].model_calls = @ + 1,
           ![t].predicted_probs = probs,
           ![t].i = 1,
           ![t].pc = "loop"]
    /\ UNCHANGED <<confidence_threshold, window_size, step_size, set_call, appvars, purevars>>

\* mutant: the error of the classifier is swallowed and empty lists returned
ClassifySwallow(t) ==
    /\ frame[t].pc = "predict"
    /\ frame' = [frame EXCEPT
           ![t].model_calls = @ + 1,
           ![t].result = Some(<<<<>>, <<>>>>),
           ![t].pc = "finally"]
    /\ UNCHANGED <<confidence_threshold, window_size, step_size, set_call, appvars, purevars>>

\* lines 176-180 raise; lines 202-204 log and re-raise
ClassifyRaise(t) ==
    /\ frame[t].pc = "predict"
    /\ frame' = [frame EXCEPT
           ![t].model_calls = @ + 1,
           ![t].raised = TRUE,
           ![t].pc = "finally"]
    /\ UNCHANGED <<confidence_threshold, window_size, step_size, set_call, appvars, purevars>>

\* lines 185-198: one iteration, which reads self.confidence_threshold
LoopStep(t) ==
    /\ frame[t].pc = "loop"
    /\ frame[t].i <= Len(frame[t].positions)
    /\ LET f     == frame[t]
           lists == ProcessWindow(<<f.b_cell_epitopes, f.t_cell_epitopes>>,
                                  f.clean_sequence, f.predicted_probs[f.i],
                                  f.positions[f.i], confidence_threshold)
       IN  frame' = [frame EXCEPT
               ![t].b_cell_epitopes = lists[1],
               ![t].t_cell_epitopes = lists[2],
               ![t].i = @ + 1]
    /\ UNCHANGED <<confidence_threshold, window_size, step_size, set_call, appvars, purevars>>

\* lines 206 and 237-242: the lists are returned, sorted and returned again
SortReturn(t) ==
    /\ frame[t].pc = "loop"
    /\ frame[t].i > Len(frame[t].positions)
    /\ frame' = [frame EXCEPT
           ![t].result = Some(<<SortByConfidence(frame[t].b_cell_epitopes),
                                SortByConfidence(frame[t].t_cell_epitopes)>>),
           ![t].pc = "finally"]
    /\ UNCHANGED <<confidence_threshold, window_size, step_size, set_call, appvars, purevars>>

\* mutant: the saved threshold is written back on a normal return only
FinallyOnReturnOnly(t) ==
    /\ frame[t].pc = "finally"
    /\ confidence_threshold' =
           IF frame[t].threshold # None /\ ~frame[t].raised
           THEN frame[t].original_threshold[1]
           ELSE confidence_threshold
    /\ frame' = [frame EXCEPT ![t].pc = IF frame[t].raised THEN "raised" ELSE "returned"]
    /\ UNCHANGED <<window_size, step_size, set_call, appvars, purevars>>

\* lines 244-246: the saved threshold is written back on both exits
Finally(t) ==
    /\ frame[t].pc = "finally"
    /\ confidence_threshold' =
           IF frame[t].threshold # None THEN frame[t].original_threshold[1]
           ELSE confidence_threshold
    /\ frame' = [frame EXCEPT ![t].pc = IF frame[t].raised THEN "raised" ELSE "returned"]
    /\ UNCHANGED <<window_size, step_size, set_call, appvars, purevars>>

\* the call has ended (line 242 or the re-raised error): its frame is gone
Release(t) ==
    /\ frame[t].pc \in {"returned", "raised"}
    /\ frame' = [frame EXCEPT ![t] = IdleFrame]
    /\ UNCHANGED <<confidence_threshold, window_size, step_size, set_call, appvars, purevars>>

\* what the classifier may return to the call of thread t
ClassifierOutputs(t) ==
    IF frame[t].pc = "predict" THEN ProbBatches(Len(frame[t].subseq_list)) ELSE {}

\* a step inside a predict_epitopes call of thread t that has no override
CallStep(t) ==
    \/ EarlyReturn(t)
    \/ Enumerate(t)
    \/ \E probs \in ClassifierOutputs(t) : Classify(t, probs)
    \/ ClassifyRaise(t)
    \/ LoopStep(t)
    \/ SortReturn(t)
    \/ Finally(t)

(***************************************************************************)
(* set_confidence_threshold(threshold), lines 281-284                      *)
(***************************************************************************)
InUnitInterval(threshold) == 0 <= threshold /\ threshold <= One

set_confidence_threshold(threshold) ==
    /\ \A t \in Threads : NotInCall(t)
    /\ IF InUnitInterval(threshold)
       THEN /\ confidence_threshold' = threshold
            /\ set_call' = [threshold |-> Some(threshold), outcome |-> "ok"]
       ELSE /\ confidence_threshold' = confidence_threshold
            /\ set_call' = [threshold |-> Some(threshold), outcome |-> "ValueError"]
    /\ UNCHANGED <<window_size, step_size, frame, appvars, purevars>>

(***************************************************************************)
(* One caller: calls follow one another                                    *)
(***************************************************************************)
Next ==
    \/ \E m \in Motifs, n \in 0..MaxLen, thr \in ThresholdArgs :
          Call(MainThread, Pattern(m, n), thr)
    \/ SetOverride(MainThread)
    \/ CallStep(MainThread)
    \/ Release(MainThread)
    \/ \E v \in ThresholdValues : set_confidence_threshold(v)

Spec == Init /\ [][Next]_vars

(***************************************************************************)
(* Several callers: predict_epitopes calls of two threads overlap          *)
(* (run.py line 124 starts the server with threaded=True and app.py line   *)
(* 42 builds the one predictor all requests share)                         *)
(***************************************************************************)
ConcSequences ==
    {Pattern(InsulinA, DefaultWindowSize - 1), Pattern(InsulinA, DefaultWindowSize)}

ConcThresholdArgs == {None, Some(0), Some(9)}

ConcProbVectors == { <<2, 6, 1, 1>>, <<1, 0, 0, 9>> }

InitConc ==
    /\ Init
    /\ window_size = DefaultWindowSize
    /\ step_size = DefaultStepSize

NextConc ==
    \E t \in Threads :
        \/ \E sequence \in ConcSequences, thr \in ConcThresholdArgs :
              Call(t, sequence, thr)
        \/ SetOverride(t)
        \/ EarlyReturn(t)
        \/ Enumerate(t)
        \/ \E v \in ConcProbVectors : Classify(t, <<v>>)
        \/ ClassifyRaise(t)
        \/ LoopStep(t)
        \/ SortReturn(t)
        \/ Finally(t)
        \/ Release(t)

SpecConc == InitConc /\ [][NextConc]_vars

(***************************************************************************)
(* app.py: validate_sequences, lines 320-349                               *)
(***************************************************************************)
MaxSequences == 50

MaxTotalLength == 300000

MinSequenceLength == 10

MaxSequenceLength == 6000

RECURSIVE TotalLength(_)
TotalLength(items) ==
    IF items = <<>> THEN 0 ELSE Len(Head(items)[2]) + TotalLength(Tail(items))

\* set(seq.upper()) - valid_aa
InvalidChars(seq) == {Upper(seq[k]) : k \in 1..Len(seq)} \ Range(AminoLetters)

\* the errors appended for one item of sequences.items(), lines 333-342
SequenceErrors(name, seq) ==
    (IF Len(seq) < MinSequenceLength THEN <<<<"too short", name>>>>
     ELSE IF Len(seq) > MaxSequenceLength THEN <<<<"too long", name>>>>
     ELSE <<>>)
    \o (IF InvalidChars(seq) # {} THEN <<<<"invalid characters", name>>>> ELSE <<>>)

RECURSIVE ItemErrors(_)
ItemErrors(items) ==
    IF items = <<>> THEN <<>>
    ELSE SequenceErrors(Head(items)[1], Head(items)[2]) \o ItemErrors(Tail(items))

validate_sequences(items) ==
    (IF Len(items) > MaxSequences THEN <<<<"too many sequences">>>> ELSE <<>>)
    \o (IF TotalLength(items) > MaxTotalLength THEN <<<<"total too long">>>> ELSE <<>>)
    \o ItemErrors(items)

(***************************************************************************)
(* app.py: predict, lines 121-261.  A dict is the sequence of its          *)
(* <<key, value>> items in insertion order.                                *)
(***************************************************************************)
Keys(dict) == {dict[k][1] : k \in 1..Len(dict)}

\* dict[key] = value
DictSet(dict, key, value) ==
    IF key \in Keys(dict)
    THEN [k \in 1..Len(dict) |-> IF dict[k][1] = key THEN <<key, value>> ELSE dict[k]]
    ELSE Append(dict, <<key, value>>)

\* largest number of sequences of the request
MaxSeqs == 2

\* lengths of the submitted sequences: below the minimum of
\* validate_sequences, without a window, with one window, with two windows
AppLengths ==
    {MinSequenceLength - 1, DefaultWindowSize - 1, DefaultWindowSize, DefaultWindowSize + 1}

AppSequences == {Pattern(m, n) : m \in Motifs, n \in AppLengths}

SeqName(k) == <<"s", "e", "q">> \o IntToStr(k)

\* the mappings a request may carry: names are distinct keys
Requests ==
    UNION {{[k \in 1..n |-> <<SeqName(k), f[k]>>] : f \in [1..n -> AppSequences]} :
           n \in 0..MaxSeqs}

JobId == "job"

\* lines 134-169: the submitted text and file are parsed into sequences
Receive(items) ==
    /\ req_pc = "idle"
    /\ req_pc' = "received"
    /\ sequences' = items
    /\ UNCHANGED purevars
    /\ UNCHANGED <<confidence_threshold, window_size, step_size, frame, set_call,
                   seq_index, results, failed_sequences, outcomes, results_files,
                   response>>

\* mutant: only an empty submission ends the request, validation errors do not
ValidateIgnoresErrors ==
    /\ req_pc = "received"
    /\ IF sequences = <<>>
       THEN /\ req_pc' = "done"
            /\ response' = "redirect"
            /\ UNCHANGED <<seq_index, results, failed_sequences>>
       ELSE /\ req_pc' = "loop"
            /\ seq_index' = 1
            /\ results' = <<>>
            /\ failed_sequences' = <<>>
            /\ UNCHANGED response
    /\ UNCHANGED purevars
    /\ UNCHANGED <<confidence_threshold, window_size, step_size, frame, set_call,
                   sequences, outcomes, results_files>>

\* lines 171-195: an empty submission or a validation error ends the request;
\* otherwise the loop starts with empty results and failed_sequences
Validate ==
    /\ req_pc = "received"
    /\ IF sequences = <<>> \/ validate_sequences(sequences) # <<>>
       THEN /\ req_pc' = "done"
            /\ response' = "redirect"
            /\ UNCHANGED <<seq_index, results, failed_sequences>>
       ELSE /\ req_pc' = "loop"
            /\ seq_index' = 1
            /\ results' = <<>>
            /\ failed_sequences' = <<>>
            /\ UNCHANGED response
    /\ UNCHANGED purevars
    /\ UNCHANGED <<confidence_threshold, window_size, step_size, frame, set_call,
                   sequences, outcomes, results_files>>

\* lines 197-202: the next item; predictor.predict_epitopes(seq) is entered
LoopCall(t) ==
    /\ req_pc = "loop"
    /\ seq_index <= Len(sequences)
    /\ EnterCall(t, sequences[seq_index][2], None)
    /\ req_pc' = "predicting"
    /\ UNCHANGED purevars
    /\ UNCHANGED <<sequences, seq_index, results, failed_sequences, outcomes,
                   results_files, response>>

\* lines 202-211: the call returned; its lists are stored under the name
LoopReturn(t) ==
    /\ req_pc = "predicting"
    /\ frame[t].pc = "returned"
    /\ LET seq_name == sequences[seq_index][1]
           seq      == sequences[seq_index][2]
       IN  /\ results' = DictSet(results, seq_name,
                  [sequence |-> seq,
                   b_cell_epitopes |-> frame[t].result[1][1],
                   t_cell_epitopes |-> frame[t].result[1][2],
                   length |-> Len(seq)])
           /\ outcomes' = Append(outcomes,
                  [name |-> seq_name, raised |-> FALSE,
                   predicted_probs |-> frame[t].predicted_probs])
    /\ frame' = [frame EXCEPT ![t] = IdleFrame]
    /\ seq_index' = seq_index + 1
    /\ req_pc' = "loop"
    /\ UNCHANGED purevars
    /\ UNCHANGED <<confidence_threshold, window_size, step_size, set_call,
                   sequences, failed_sequences, results_files, response>>

\* mutant: the error of one sequence ends the whole request (the outer
\* handler of lines 258-261 answers with a redirect)
LoopExceptAborts(t) ==
    /\ req_pc = "predicting"
    /\ frame[t].pc = "raised"
    /\ outcomes' = Append(outcomes,
           [name |-> sequences[seq_index][1], raised |-> TRUE,
            predicted_probs |-> <<>>])
    /\ frame' = [frame EXCEPT ![t] = IdleFrame]
    /\ req_pc' = "done"
    /\ response' = "redirect"
    /\ UNCHANGED purevars
    /\ UNCHANGED <<confidence_threshold, window_size, step_size, set_call,
                   sequences, seq_index, results, failed_sequences, results_files>>

\* lines 219-221: the call raised; the name is appended to failed_sequences
LoopExcept(t) ==
    /\ req_pc = "predicting"
    /\ frame[t].pc = "raised"
    /\ failed_sequences' = Append(failed_sequences, sequences[seq_index][1])
    /\ outcomes' = Append(outcomes,
           [name |-> sequences[seq_index][1], raised |-> TRUE,
            predicted_probs |-> <<>>])
    /\ frame' = [frame EXCEPT ![t] = IdleFrame]
    /\ seq_index' = seq_index + 1
    /\ req_pc' = "loop"
    /\ UNCHANGED purevars
    /\ UNCHANGED <<confidence_threshold, window_size, step_size, set_call,
                   sequences, results, results_files, response>>

\* mutant: the results file is written and rendered also without any result
AfterLoopStoresAlways ==
    /\ req_pc = "loop"
    /\ seq_index > Len(sequences)
    /\ results_files' = results_files \cup
           {[job_id |-> JobId, results |-> results,
             total_sequences |-> Len(sequences)]}
    /\ response' = "results"
    /\ req_pc' = "done"
    /\ UNCHANGED purevars
    /\ UNCHANGED <<confidence_threshold, window_size, step_size, frame, set_call,
                   sequences, seq_index, results, failed_sequences, outcomes>>

\* lines 223-256: without any result the request ends with a redirect;
\* otherwise the results file is written and the results page rendered
AfterLoop ==
    /\ req_pc = "loop"
    /\ seq_index > Len(sequences)
    /\ IF results = <<>>
       THEN /\ response' = "redirect"
            /\ UNCHANGED results_files
       ELSE /\ results_files' = results_files \cup
                   {[job_id |-> JobId, results |-> results,
                     total_sequences |-> Len(sequences)]}
            /\ response' = "results"
    /\ req_pc' = "done"
    /\ UNCHANGED purevars
    /\ UNCHANGED <<confidence_threshold, window_size, step_size, frame, set_call,
                   sequences, seq_index, results, failed_sequences, outcomes>>

NextApp ==
    \/ \E items \in Requests : Receive(items)
    \/ Validate
    \/ LoopCall(MainThread)
    \/ CallStep(MainThread)
    \/ LoopReturn(MainThread)
    \/ LoopExcept(MainThread)
    \/ AfterLoop

InitApp ==
    /\ Init
    /\ window_size = DefaultWindowSize
    /\ step_size = DefaultStepSize

SpecApp == InitApp /\ [][NextApp]_vars

(***************************************************************************)
(* Vocabulary of the properties                                            *)
(***************************************************************************)
\* the call of thread t has produced its lists
HasResult(t) == frame[t].pc \in {"finally", "returned"} /\ frame[t].result # None

b_result(t) == frame[t].result[1][1]

t_result(t) == frame[t].result[1][2]

\* the threshold a call asks for: its override, else the configured one
OwnThreshold(t) ==
    IF frame[t].threshold = None THEN frame[t].entry_threshold
    ELSE frame[t].threshold[1]

\* window k of the call of thread t is reported in the list
Reported(list, t, k) ==
    \E j \in 1..Len(list) :
        ParsePosRange(list[j][3])[1] = frame[t].positions[k][1] + 1

IsSubset(small, large) == Range(small) \subseteq Range(large)

(***************************************************************************)
(* C1: a window is reported if and only if its arg-max probability is at   *)
(* least the call's threshold and its arg-max class is B_cell_positive or  *)
(* T_cell_MHC_positive; a B_cell_positive window is in the B-cell list     *)
(* only, a T_cell_MHC_positive window in the T-cell list only, a window    *)
(* with a negative arg-max class in neither list.                          *)
(***************************************************************************)
C1_DecisionRule ==
    \A t \in {MainThread} :
        HasResult(t) =>
            \A k \in 1..Len(frame[t].positions) :
                LET probs == frame[t].predicted_probs[k]
                    class == idx_to_class[NpArgMax(probs)]
                    high  == NpMax(probs) >= OwnThreshold(t)
                IN  /\ Reported(b_result(t), t, k) <=> (high /\ class = "B_cell_positive")
                    /\ Reported(t_result(t), t, k) <=> (high /\ class = "T_cell_MHC_positive")

C1_Witness ==
    /\ frame[MainThread].pc = "returned"
    /\ Len(frame[MainThread].positions) = 2
    /\ Len(b_result(MainThread)) = 1
    /\ Len(t_result(MainThread)) = 0
    /\ \E k \in 1..2 :
          /\ idx_to_class[NpArgMax(frame[MainThread].predicted_probs[k])] = "B_cell_negative"
          /\ NpMax(frame[MainThread].predicted_probs[k]) >= OwnThreshold(MainThread)

(***************************************************************************)
(* C3: a sequence shorter than window_size gets two empty lists, no error  *)
(* is raised and the classifier is never invoked.                          *)
(***************************************************************************)
C3_TooShort ==
    \A t \in {MainThread} :
        (frame[t].pc # "idle" /\ Len(frame[t].sequence) < window_size) =>
            /\ frame[t].model_calls = 0
            /\ ~frame[t].raised
            /\ frame[t].pc \in {"set", "try", "finally", "returned"}
            /\ frame[t].pc \in {"finally", "returned"} =>
                   frame[t].result = Some(<<<<>>, <<>>>>)

C3_Witness ==
    /\ frame[MainThread].pc = "returned"
    /\ Len(frame[MainThread].sequence) = window_size - 1
    /\ frame[MainThread].result = Some(<<<<>>, <<>>>>)

(***************************************************************************)
(* C4: the windows evaluated are exactly those whose start offsets are the *)
(* multiples of step_size up to L - W, in strictly increasing order, each  *)
(* ending at start + W; with step_size 1 there are max(0, L - W + 1).      *)
(***************************************************************************)
C4_Windows ==
    \A t \in {MainThread} :
        frame[t].pc \in {"predict", "loop", "finally", "returned", "raised"} =>
            LET L   == Len(frame[t].clean_sequence)
                pos == frame[t].positions
            IN  /\ {pos[k][1] : k \in 1..Len(pos)} =
                       {x \in 0..(L - window_size) : x % step_size = 0}
                /\ \A k \in 1..Len(pos) : pos[k][2] = pos[k][1] + window_size
                /\ \A j, k \in 1..Len(pos) : j < k => pos[j][1] < pos[k][1]
                /\ Len(frame[t].subseq_list) = Len(pos)
                /\ \A k \in 1..Len(pos) : Len(frame[t].subseq_list[k]) = window_size
                /\ step_size = 1 => Len(pos) = Max(0, L - window_size + 1)

C4_Witness ==
    /\ frame[MainThread].pc = "loop"
    /\ step_size = 2
    /\ Len(frame[MainThread].clean_sequence) = window_size + 3
    /\ frame[MainThread].positions = <<<<0, window_size>>, <<2, window_size + 2>>>>

(***************************************************************************)
(* C5: both returned lists are sorted by non-increasing confidence, and    *)
(* calls of equal confidence are in ascending order of their window start. *)
(***************************************************************************)
SortedStable(list) ==
    \A j, k \in 1..Len(list) :
        j < k =>
            /\ list[j][2] >= list[k][2]
            /\ list[j][2] = list[k][2] =>
                   ParsePosRange(list[j][3])[1] < ParsePosRange(list[k][3])[1]

C5_Sorted ==
    \A t \in {MainThread} :
        HasResult(t) => SortedStable(b_result(t)) /\ SortedStable(t_result(t))

C5_Witness ==
    /\ frame[MainThread].pc = "returned"
    /\ \E list \in {b_result(MainThread), t_result(MainThread)} :
          /\ Len(list) = 2
          /\ list[1][2] = list[2][2]

(***************************************************************************)
(* C6: the position range "a-b" of every returned call has a = start + 1   *)
(* and b = start + window_size for the start of its window, lies within    *)
(* 1..length of the evaluated sequence and spans window_size residues.     *)
(***************************************************************************)
C6_PositionRange ==
    \A t \in {MainThread} :
        HasResult(t) =>
            \A list \in {b_result(t), t_result(t)} :
                \A j \in 1..Len(list) :
                    LET a == ParsePosRange(list[j][3])[1]
                        b == ParsePosRange(list[j][3])[2]
                    IN  /\ 1 <= a
                        /\ b <= Len(frame[t].clean_sequence)
                        /\ b - a + 1 = window_size
                        /\ \E k \in 1..Len(frame[t].positions) :
                              /\ a = frame[t].positions[k][1] + 1
                              /\ b = frame[t].positions[k][1] + window_size
                              /\ list[j][2] = NpMax(frame[t].predicted_probs[k])

C6_Witness ==
    /\ frame[MainThread].pc = "returned"
    /\ window_size = DefaultWindowSize
    /\ Len(b_result(MainThread)) = 1
    /\ b_result(MainThread)[1][3] = <<"2", "-", "2", "1">>

(***************************************************************************)
(* C7: when the classifier raises, predict_epitopes raises too: the call   *)
(* delivers no lists and ends with the error.                              *)
(***************************************************************************)
C7_ClassifierError ==
    /\ [][\A t \in {MainThread} :
            (frame[t].pc = "predict" /\ frame'[t].pc = "finally") =>
                (frame'[t].raised /\ frame'[t].result = None)]_vars
    /\ [](\A t \in {MainThread} :
            frame[t].raised =>
                /\ frame[t].result = None
                /\ frame[t].pc \in {"finally", "raised"})
    /\ [][\A t \in {MainThread} :
            (frame[t].pc = "finally" /\ frame[t].raised /\ frame'[t].pc # "finally") =>
                frame'[t].pc = "raised"]_vars

C7_Witness ==
    /\ frame[MainThread].pc = "raised"
    /\ frame[MainThread].model_calls = 1
    /\ frame[MainThread].result = None

(***************************************************************************)
(* C9: a threshold outside [0, 1] is rejected at once: both                *)
(* set_confidence_threshold(t) and predict_epitopes(sequence, threshold=t) *)
(* end in an error, leave confidence_threshold unchanged and do not invoke *)
(* the classifier.                                                         *)
(***************************************************************************)
C9_InvalidThresholdRejected ==
    /\ (set_call.threshold # None /\ ~InUnitInterval(set_call.threshold[1])) =>
           set_call.outcome = "ValueError"
    /\ \A t \in {MainThread} :
           (frame[t].threshold # None /\ ~InUnitInterval(frame[t].threshold[1])) =>
               /\ frame[t].model_calls = 0
               /\ frame[t].pc # "returned"
               /\ frame[t].pc = "raised" =>
                      confidence_threshold = frame[t].entry_threshold

(***************************************************************************)
(* C10: for one sequence and one classifier output, the calls returned     *)
(* under a threshold are a subset of those returned under any lower        *)
(* threshold of [0, 1], in each list, so their number does not grow.       *)
(***************************************************************************)
C10_Monotone ==
    \A t \in {MainThread} :
        (HasResult(t) /\ InUnitInterval(OwnThreshold(t))) =>
            \A t1 \in 0..OwnThreshold(t) :
                LET lower == PredictAlone(frame[t].clean_sequence,
                                          frame[t].predicted_probs,
                                          frame[t].positions, t1)
                IN  /\ IsSubset(b_result(t), lower[1])
                    /\ IsSubset(t_result(t), lower[2])
                    /\ Len(b_result(t)) <= Len(lower[1])
                    /\ Len(t_result(t)) <= Len(lower[2])
                    /\ Len(b_result(t)) + Len(t_result(t)) <= Len(lower[1]) + Len(lower[2])

C10_Witness ==
    /\ frame[MainThread].pc = "returned"
    /\ OwnThreshold(MainThread) = 9
    /\ Len(b_result(MainThread)) = 1
    /\ Len(PredictAlone(frame[MainThread].clean_sequence,
                        frame[MainThread].predicted_probs,
                        frame[MainThread].positions, 5)[1]) = 2

(***************************************************************************)
(* C2: a threshold override is scoped to its own call: when calls of two   *)
(* threads overlap, each call returns the lists it would return if it ran  *)
(* alone with its own threshold (its override, else the configured 0.5).   *)
(***************************************************************************)
C2_OverrideScopedToCall ==
    \A t \in Threads :
        frame[t].pc = "returned" =>
            frame[t].result =
                Some(PredictAlone(frame[t].clean_sequence, frame[t].predicted_probs,
                                  frame[t].positions,
                                  IF frame[t].threshold = None THEN DefaultThreshold
                                  ELSE frame[t].threshold[1]))

(***************************************************************************)
(* C8: in a request over several sequences a failed prediction neither     *)
(* aborts nor alters the others: after the loop, results holds exactly the *)
(* sequences whose prediction succeeded, each with the lists it gets when  *)
(* predicted alone, failed_sequences holds exactly those that failed, the  *)
(* two are disjoint and together they cover the submitted sequences.       *)
(***************************************************************************)
RaisedNames == {outcomes[k].name : k \in {j \in 1..Len(outcomes) : outcomes[j].raised}}

ReturnedNames == {outcomes[k].name : k \in {j \in 1..Len(outcomes) : ~outcomes[j].raised}}

\* the loop of the request has been entered and left
LoopLeft == req_pc = "done" /\ outcomes # <<>>

C8_FailureIsolation ==
    LoopLeft =>
        /\ Keys(results) = ReturnedNames
        /\ Range(failed_sequences) = RaisedNames
        /\ Keys(results) \cap Range(failed_sequences) = {}
        /\ Keys(results) \cup Range(failed_sequences) = Keys(sequences)
        /\ Len(results) + Len(failed_sequences) = Len(sequences)
        /\ \A k \in 1..Len(results) :
              \E j \in 1..Len(sequences), h \in 1..Len(outcomes) :
                  LET seq   == sequences[j][2]
                      clean == CleanSequence(seq)
                      alone == PredictAlone(clean, outcomes[h].predicted_probs,
                                            Positions(clean, window_size, step_size),
                                            DefaultThreshold)
                  IN  /\ sequences[j][1] = results[k][1]
                      /\ outcomes[h].name = results[k][1]
                      /\ results[k][2].sequence = seq
                      /\ results[k][2].length = Len(seq)
                      /\ results[k][2].b_cell_epitopes = alone[1]
                      /\ results[k][2].t_cell_epitopes = alone[2]

C8_Witness ==
    /\ LoopLeft
    /\ Len(sequences) = 2
    /\ Len(failed_sequences) = 1
    /\ failed_sequences[1] = sequences[1][1]
    /\ Len(results) = 1
    /\ Len(results[1][2].b_cell_epitopes) = 1

(***************************************************************************)
(* C11: in a pipeline run a character that is not one of the 20 canonical  *)
(* letters becomes code 0 at its own position and is never removed: the    *)
(* sequence whose windows are enumerated is as long as the input, and its  *)
(* codes are those of the input characters, position by position.          *)
(***************************************************************************)
\* the code of one input character: 1..20 for a canonical letter, else 0
CanonicalCode(c) ==
    IF Upper(c) \in Range(AminoLetters)
    THEN CHOOSE k \in 1..Len(AminoLetters) : AminoLetters[k] = Upper(c)
    ELSE 0

\* the call of thread t has enumerated the windows of its cleaned input
Cleaned(t) == frame[t].positions # <<>>

C11_UnknownKeepsPosition ==
    \A t \in {MainThread} :
        Cleaned(t) =>
            /\ Len(frame[t].clean_sequence) = Len(frame[t].sequence)
            /\ encode_sequence(frame[t].clean_sequence) =
                   [k \in 1..Len(frame[t].sequence) |-> CanonicalCode(frame[t].sequence[k])]

(***************************************************************************)
(* encode_sequence on its own: the argument is drawn, the function applied *)
(***************************************************************************)
\* largest length of an encoded text
MaxEncodeLen == 3

\* a canonical letter, a lower-case one, the unknown letter X, a letter and
\* a digit outside the table
EncodeChars == {"A", "y", "X", "b", "1"}

\* all texts over chars of length at most n
RECURSIVE Texts(_, _)
Texts(chars, n) ==
    IF n = 0 THEN {<<>>}
    ELSE LET shorter == Texts(chars, n - 1)
         IN  shorter \cup {Append(s, c) : s \in {x \in shorter : Len(x) = n - 1},
                                          c \in chars}

EncodeInputs ==
    Texts(EncodeChars, MaxEncodeLen) \cup {AminoLetters, LowerLetters, UpperLetters}

InitEncode ==
    /\ PredictorConstructed
    /\ window_size = DefaultWindowSize
    /\ step_size = DefaultStepSize
    /\ NoRequest
    /\ encode_call \in {[sequence |-> s, result |-> None] : s \in EncodeInputs}
    /\ markup_call = NoMarkupCall
    /\ fasta_call = NoFastaCall
    /\ download_call = NoDownloadCall

\* encode_sequence(sequence) is called and returns
EncodeCall ==
    /\ encode_call.result = None
    /\ encode_call' = [encode_call EXCEPT !.result = Some(encode_sequence(encode_call.sequence))]
    /\ UNCHANGED <<confidence_threshold, window_size, step_size, frame, set_call,
                   appvars, markup_call, fasta_call, download_call>>

NextEncode == EncodeCall

SpecEncode == InitEncode /\ [][NextEncode]_vars

(***************************************************************************)
(* C12: encode_sequence returns, for every text, a list of the same        *)
(* length; position i holds a code of 1..20 if the i-th character, upper-  *)
(* cased, is one of the 20 canonical letters (different letters, different *)
(* codes) and 0 for every other character.                                 *)
(***************************************************************************)
C12_EncodeTotal ==
    encode_call.result # None =>
        LET text == encode_call.sequence
            code == encode_call.result[1]
            canonical(c) == Upper(c) \in Range(AminoLetters)
        IN  /\ Len(code) = Len(text)
            /\ \A k \in 1..Len(text) :
                   IF canonical(text[k]) THEN code[k] \in 1..20 ELSE code[k] = 0
            /\ \A j, k \in 1..Len(text) :
                   (canonical(text[j]) /\ canonical(text[k])) =>
                       (code[j] = code[k] <=> Upper(text[j]) = Upper(text[k]))

C12_Witness ==
    /\ encode_call.sequence = LowerLetters
    /\ encode_call.result # None
    /\ Cardinality(Range(encode_call.result[1])) = 21

(***************************************************************************)
(* get_sequence_markup, lines 248-272                                      *)
(***************************************************************************)
\* line 266: marker = 'E' if epitope_type == 'B-cell' else 'T'
Marker(epitope_type) == IF epitope_type = "B-cell" THEN "E" ELSE "T"

\* line 270: markup[i] = marker; a negative i counts from the end of the list
SetItem(markup, i, marker) ==
    LET k == IF i < 0 THEN Len(markup) + i + 1 ELSE i + 1
    IN  [markup EXCEPT ![k] = marker]

\* lines 269-270: the inner loop over the indices of one call
RECURSIVE MarkRange(_, _, _)
MarkRange(markup, indices, marker) ==
    IF indices = <<>> THEN markup
    ELSE MarkRange(SetItem(markup, Head(indices), marker), Tail(indices), marker)

\* mutant: the inclusive end of the range is left unmarked
MarkCallExclusive(markup, epitope, epitope_type) ==
    LET parsed == ParsePosRange(epitope[3])
        start  == parsed[1] - 1
        end    == parsed[2] - 1
    IN  MarkRange(markup, PyRange(start, Min(end, Len(markup)), 1), Marker(epitope_type))

\* lines 261-270: one iteration of the loop over the calls
MarkCall(markup, epitope, epitope_type) ==
    LET parsed == ParsePosRange(epitope[3])
        start  == parsed[1] - 1
        end    == parsed[2] - 1
    IN  MarkRange(markup, PyRange(start, Min(end + 1, Len(markup)), 1), Marker(epitope_type))

\* mutant: every call starts from a fresh markup, so only the last call shows
MarkCallsLastWins(markup, epitopes, epitope_type) ==
    IF epitopes = <<>> THEN markup
    ELSE MarkCall(markup, epitopes[Len(epitopes)], epitope_type)

\* line 261: for epitope, confidence, pos_range in epitopes
RECURSIVE MarkCalls(_, _, _)
MarkCalls(markup, epitopes, epitope_type) ==
    IF epitopes = <<>> THEN markup
    ELSE MarkCalls(MarkCall(markup, Head(epitopes), epitope_type), Tail(epitopes), epitope_type)

\* the returned string ''.join(markup), as the tuple of its characters
get_sequence_markup(sequence, epitopes, epitope_type) ==
    MarkCalls([k \in 1..Len(sequence) |-> "."], epitopes, epitope_type)

\* largest number of calls handed to get_sequence_markup
MaxCalls == 2

\* a short sequence length, besides the empty sequence and one of two digits
MarkupLen == 4

MarkupSequences == {Pattern(InsulinA, n) : n \in {0, MarkupLen, 12}}

\* 1-based inclusive ranges "a-b": inside the sequence, ending past its end
\* (the clamp of line 269), of two digits, and empty ones (b < a)
MarkupRanges == {<<a, b>> : a \in {1, 2, 11}, b \in {1, 3, MarkupLen + 1, 12, 13}}

\* a call (substring, confidence, pos_range) as predict_epitopes builds it
MarkupEpitope(r) == <<Slice(InsulinA, r[1] - 1, r[2]), 9, PosRange(r[1] - 1, r[2])>>

MarkupEpitopeLists ==
    UNION {[1..n -> {MarkupEpitope(r) : r \in MarkupRanges}] : n \in 0..MaxCalls}

EpitopeTypes == {"B-cell", "T-cell"}

InitMarkup ==
    /\ PredictorConstructed
    /\ window_size = DefaultWindowSize
    /\ step_size = DefaultStepSize
    /\ NoRequest
    /\ encode_call = NoEncodeCall
    /\ markup_call \in {[sequence |-> s, epitopes |-> e, epitope_type |-> ty, result |-> None] :
                           s \in MarkupSequences, e \in MarkupEpitopeLists, ty \in EpitopeTypes}
    /\ fasta_call = NoFastaCall
    /\ download_call = NoDownloadCall

\* get_sequence_markup(sequence, epitopes, epitope_type) is called and returns
MarkupCall ==
    /\ markup_call.result = None
    /\ markup_call' = [markup_call EXCEPT !.result =
                           Some(get_sequence_markup(markup_call.sequence,
                                                    markup_call.epitopes,
                                                    markup_call.epitope_type))]
    /\ UNCHANGED <<confidence_threshold, window_size, step_size, frame, set_call,
                   appvars, encode_call, fasta_call, download_call>>

NextMarkup == MarkupCall

SpecMarkup == InitMarkup /\ [][NextMarkup]_vars

\* position i (1-based) lies in the inclusive range written in pos_range
InsideRange(i, pos_range) ==
    \E a \in 1..i, b \in i..13 : pos_range = IntToStr(a) \o <<"-">> \o IntToStr(b)

(***************************************************************************)
(* C13: get_sequence_markup returns a string of exactly len(sequence)      *)
(* characters; a position holds the marker of the type ('E' for B-cell,    *)
(* 'T' for T-cell) iff it lies inside the inclusive 1-based range of at    *)
(* least one of the given calls, and '.' otherwise.                        *)
(***************************************************************************)
C13_Markup ==
    markup_call.result # None =>
        LET markup == markup_call.result[1]
            calls  == markup_call.epitopes
            marker == IF markup_call.epitope_type = "B-cell" THEN "E" ELSE "T"
        IN  /\ Len(markup) = Len(markup_call.sequence)
            /\ \A i \in 1..Len(markup) :
                   IF \E k \in 1..Len(calls) : InsideRange(i, calls[k][3])
                   THEN markup[i] = marker
                   ELSE markup[i] = "."

\* a B-cell markup of 4 positions with a call "2-5" that ends past the end
C13_Witness ==
    /\ markup_call.result = Some(<<".", "E", "E", "E">>)
    /\ \E k \in 1..Len(markup_call.epitopes) :
           markup_call.epitopes[k][3] = <<"2", "-", "5">>

\* all orders of the list
Reorderings(list) ==
    {[k \in 1..Len(list) |-> list[p[k]]] :
        p \in {q \in [1..Len(list) -> 1..Len(list)] :
                   \A j, k \in 1..Len(list) : q[j] = q[k] => j = k}}

\* the list with one of its calls repeated at any place
Duplications(list) ==
    {SubSeq(list, 1, j) \o <<list[k]>> \o SubSeq(list, j + 1, Len(list)) :
        j \in 0..Len(list), k \in 1..Len(list)}

(***************************************************************************)
(* C19: the markup does not depend on the order of the calls nor on        *)
(* repeated or overlapping ones: get_sequence_markup returns the same      *)
(* string for every permutation of the list and for the list with any      *)
(* call duplicated.                                                        *)
(***************************************************************************)
C19_OrderIndependent ==
    markup_call.result # None =>
        \A other \in Reorderings(markup_call.epitopes) \cup Duplications(markup_call.epitopes) :
            get_sequence_markup(markup_call.sequence, other, markup_call.epitope_type)
                = markup_call.result[1]

\* two different overlapping calls, "1-3" and then "2-5", have been marked
C19_Witness ==
    /\ markup_call.result = Some(<<"T", "T", "T", "T">>)
    /\ Len(markup_call.epitopes) >= 2
    /\ markup_call.epitopes[1][3] = <<"1", "-", "3">>
    /\ markup_call.epitopes[2][3] = <<"2", "-", "5">>

(***************************************************************************)
(* The insulin A chain of test_model.py line 36 under the default          *)
(* parameters: window_size 20, step_size 1, confidence_threshold 0.5       *)
(***************************************************************************)
\* "GIVEQCCTSICSLYQLENYCN" and its prefixes of 19 and 20 residues
ScenarioSequences == {Pattern(InsulinA, n) : n \in 19..21}

\* the call leaves the threshold alone or passes 0.5
ScenarioThresholdArgs == {None, Some(DefaultThreshold)}

\* probability vectors of one window (tenths)
ScenarioProbVectors ==
    { <<1, 8, 1, 0>>,      \* B_cell_positive 0.8
      <<6, 2, 1, 1>>,      \* B_cell_negative 0.6
      <<2, 2, 2, 4>>,      \* T_cell_MHC_positive 0.4
      <<0, 0, 1, 9>>,      \* T_cell_MHC_positive 0.9
      <<1, 1, 7, 1>>,      \* T_cell_MHC_negative 0.7
      <<2, 4, 2, 2>> }     \* B_cell_positive 0.4

\* all batches of n vectors
RECURSIVE Batches(_, _)
Batches(vectors, n) ==
    IF n = 0 THEN {<<>>}
    ELSE {Append(b, v) : b \in Batches(vectors, n - 1), v \in vectors}

ScenarioOutputs(t) ==
    IF frame[t].pc = "predict"
    THEN Batches(ScenarioProbVectors, Len(frame[t].subseq_list))
    ELSE {}

InitScenario ==
    /\ Init
    /\ window_size = DefaultWindowSize
    /\ step_size = DefaultStepSize

NextScenario ==
    \/ \E sequence \in ScenarioSequences, thr \in ScenarioThresholdArgs :
          Call(MainThread, sequence, thr)
    \/ SetOverride(MainThread)
    \/ EarlyReturn(MainThread)
    \/ Enumerate(MainThread)
    \/ \E probs \in ScenarioOutputs(MainThread) : Classify(MainThread, probs)
    \/ ClassifyRaise(MainThread)
    \/ LoopStep(MainThread)
    \/ SortReturn(MainThread)
    \/ Finally(MainThread)
    \/ Release(MainThread)

SpecScenario == InitScenario /\ [][NextScenario]_vars

\* the call of thread t is on the 21 residues of the insulin A chain
OnInsulinA(t) == frame[t].sequence = Pattern(InsulinA, 21)

\* vector p has its only maximum, of value confidence, at the class label
ArgMaxIs(p, label, confidence) ==
    /\ p[class_mapping[label] + 1] = confidence
    /\ \A k \in 1..Len(p) : k # class_mapping[label] + 1 => p[k] < confidence

(***************************************************************************)
(* C14: for "GIVEQCCTSICSLYQLENYCN" with window_size 20, step_size 1 and   *)
(* threshold 0.5 exactly the two windows starting at 0 and 1 are           *)
(* evaluated; when the classifier gives window 0 B-cell-positive with 0.80 *)
(* and window 1 B-cell-negative with 0.60, the B-cell list is exactly      *)
(* [(sequence[0:20], 0.80, "1-20")] and the T-cell list is empty.          *)
(***************************************************************************)
C14_InsulinBCell ==
    \A t \in {MainThread} :
        /\ (OnInsulinA(t) /\ frame[t].pc \in {"predict", "loop", "finally", "returned"}) =>
               /\ frame[t].positions = <<<<0, 20>>, <<1, 21>>>>
               /\ Len(frame[t].subseq_list) = 2
        /\ (/\ OnInsulinA(t)
            /\ HasResult(t)
            /\ ArgMaxIs(frame[t].predicted_probs[1], "B_cell_positive", 8)
            /\ ArgMaxIs(frame[t].predicted_probs[2], "B_cell_negative", 6)) =>
               /\ b_result(t) = << <<SubSeq(InsulinA, 1, 20), 8, <<"1", "-", "2", "0">>>> >>
               /\ t_result(t) = <<>>

C14_Witness ==
    /\ OnInsulinA(MainThread)
    /\ frame[MainThread].pc = "returned"
    /\ frame[MainThread].result # None
    /\ frame[MainThread].predicted_probs = << <<1, 8, 1, 0>>, <<6, 2, 1, 1>> >>
    /\ Len(b_result(MainThread)) = 1

(***************************************************************************)
(* C15: for the same sequence and two windows, when both windows are       *)
(* classified T-cell-positive, with 0.40 (window 0) and 0.90 (window 1),   *)
(* and the threshold is 0.5, only window 1 is accepted: the T-cell list is *)
(* exactly [(sequence[1:21], 0.90, "2-21")] and the B-cell list is empty.  *)
(***************************************************************************)
C15_InsulinTCell ==
    \A t \in {MainThread} :
        (/\ OnInsulinA(t)
         /\ HasResult(t)
         /\ ArgMaxIs(frame[t].predicted_probs[1], "T_cell_MHC_positive", 4)
         /\ ArgMaxIs(frame[t].predicted_probs[2], "T_cell_MHC_positive", 9)) =>
            /\ t_result(t) = << <<SubSeq(InsulinA, 2, 21), 9, <<"2", "-", "2", "1">>>> >>
            /\ b_result(t) = <<>>

C15_Witness ==
    /\ OnInsulinA(MainThread)
    /\ frame[MainThread].pc = "returned"
    /\ frame[MainThread].result # None
    /\ frame[MainThread].predicted_probs = << <<2, 2, 2, 4>>, <<0, 0, 1, 9>> >>
    /\ Len(t_result(MainThread)) = 1

\* the text a call works on: upper-cased, characters outside the table dropped
CleanedText(sequence) ==
    SelectSeq([k \in 1..Len(sequence) |-> Upper(sequence[k])],
              LAMBDA c : c \in Range(AminoLetters) \cup {"X"})

\* the calls of both returned lists of the call of thread t
ReturnedCalls(t) == Range(b_result(t)) \cup Range(t_result(t))

(***************************************************************************)
(* C16: for every call (substring, confidence, "a-b") returned by          *)
(* predict_epitopes, substring is the text of the cleaned, upper-cased     *)
(* sequence at the 1-based inclusive positions a..b (the 0-based slice     *)
(* [a-1, b)).                                                              *)
(***************************************************************************)
C16_SubstringIsSlice ==
    \A t \in {MainThread} :
        (HasResult(t) /\ ReturnedCalls(t) # {}) =>
            LET text == CleanedText(frame[t].sequence)
            IN  \A call \in ReturnedCalls(t) :
                    LET range == ParsePosRange(call[3])
                        a     == range[1]
                        b     == range[2]
                    IN  /\ 1 <= a /\ a <= b /\ b <= Len(text)
                        /\ call[1] = [k \in 1..(b - a + 1) |-> text[a - 1 + k]]

\* a call on a later window of an input that cleaning has changed
C16_Witness ==
    /\ HasResult(MainThread)
    /\ frame[MainThread].sequence # CleanedText(frame[MainThread].sequence)
    /\ \E call \in ReturnedCalls(MainThread) : ParsePosRange(call[3])[1] > 1
\* the classifier has been called in the call of thread t
Classified(t) ==
    frame[t].positions # <<>> /\ frame[t].pc \in {"loop", "finally", "returned", "raised"}

\* the call of thread t is at line 176 with the batch the classifier gets
AboutToClassify(t) == frame[t].pc = "predict"

\* the vector the classifier returned for the window a returned call names
VectorOf(t, call) ==
    LET k == CHOOSE j \in 1..Len(frame[t].positions) :
                 frame[t].positions[j][1] + 1 = ParsePosRange(call[3])[1]
    IN  frame[t].predicted_probs[k]

(***************************************************************************)
(* C17: for a sequence with at least one window the classifier is invoked  *)
(* exactly once per predict_epitopes call, on one batch that holds the     *)
(* encoded windows of the cleaned sequence in ascending start order, each  *)
(* of length window_size; the i-th returned vector is applied to the i-th  *)
(* window: a returned call carries the maximum of the vector of its own    *)
(* window and sits in the list of that vector's arg-max class.             *)
(***************************************************************************)
C17_OneBatch ==
    \A t \in {MainThread} :
        /\ frame[t].model_calls <= 1
        /\ Classified(t) => frame[t].model_calls = 1
        /\ AboutToClassify(t) =>
               LET text  == CleanedText(frame[t].sequence)
                   batch == frame[t].subseq_list
                   n     == Len(frame[t].positions)
               IN  /\ frame[t].model_calls = 0
                   /\ n >= 1
                   /\ Len(batch) = n
                   /\ \A k \in 1..(n - 1) :
                          frame[t].positions[k][1] < frame[t].positions[k + 1][1]
                   /\ \A k \in 1..n :
                          /\ Len(batch[k]) = window_size
                          /\ \A j \in 1..window_size :
                                 batch[k][j] = CanonicalCode(text[frame[t].positions[k][1] + j])
        /\ (Classified(t) /\ HasResult(t)) =>
               /\ Len(frame[t].predicted_probs) = Len(frame[t].positions)
               /\ \A call \in Range(b_result(t)) :
                      LET vector == VectorOf(t, call)
                      IN  /\ call[2] = NpMax(vector)
                          /\ idx_to_class[NpArgMax(vector)] = "B_cell_positive"
               /\ \A call \in Range(t_result(t)) :
                      LET vector == VectorOf(t, call)
                      IN  /\ call[2] = NpMax(vector)
                          /\ idx_to_class[NpArgMax(vector)] = "T_cell_MHC_positive"

\* two windows with different vectors; only the second one is reported
C17_Witness ==
    /\ frame[MainThread].pc = "returned"
    /\ frame[MainThread].result # None
    /\ frame[MainThread].model_calls = 1
    /\ Len(frame[MainThread].subseq_list) = 2
    /\ frame[MainThread].predicted_probs[1] # frame[MainThread].predicted_probs[2]
    /\ b_result(MainThread) = <<>>
    /\ Len(t_result(MainThread)) = 1
    /\ ParsePosRange(t_result(MainThread)[1][3])[1] = frame[MainThread].positions[2][1] + 1

(***************************************************************************)
(* app.py: parse_fasta_text, lines 295-318                                 *)
(***************************************************************************)
\* the characters str.strip() removes
Whitespace == {" ", "\t", "\n", "\r"}

RECURSIVE LStrip(_)
LStrip(s) ==
    IF s # <<>> /\ Head(s) \in Whitespace THEN LStrip(Tail(s)) ELSE s

RECURSIVE RStrip(_)
RStrip(s) ==
    IF s # <<>> /\ s[Len(s)] \in Whitespace THEN RStrip(SubSeq(s, 1, Len(s) - 1)) ELSE s

\* str.strip()
Strip(s) == RStrip(LStrip(s))

\* ''.join(parts)
RECURSIVE Join(_)
Join(parts) == IF parts = <<>> THEN <<>> ELSE Head(parts) \o Join(Tail(parts))

\* '\n'.join(lines)
RECURSIVE JoinLines(_)
JoinLines(lines) ==
    IF lines = <<>> THEN <<>>
    ELSE IF Len(lines) = 1 THEN lines[1]
    ELSE lines[1] \o <<"\n">> \o JoinLines(Tail(lines))

\* line 310: ''.join(c.upper() for c in line if c.upper() in 'ACDEFGHIKLMNPQRSTVWY')
RECURSIVE CleanLine(_)
CleanLine(line) ==
    IF line = <<>> THEN <<>>
    ELSE LET c == Upper(Head(line))
         IN  (IF c \in Range(AminoLetters) THEN <<c>> ELSE <<>>) \o CleanLine(Tail(line))

\* f"Sequence_{len(sequences)+1}", parsed being the dict sequences
Placeholder(parsed) ==
    <<"S", "e", "q", "u", "e", "n", "c", "e", "_">> \o IntToStr(Len(parsed) + 1)

\* mutant: a header without a name gives the empty name
HeaderNameRaw(line, parsed) == Strip(Tail(line))

\* line 307: line[1:].strip() or f"Sequence_{len(sequences)+1}"
HeaderName(line, parsed) ==
    IF Strip(Tail(line)) # <<>> THEN Strip(Tail(line)) ELSE Placeholder(parsed)

\* the truth value of current_name: neither None nor the empty string
Truthy(current_name) == current_name # None /\ current_name[1] # <<>>

\* lines 305-306 and 314-315: the open record is stored if it has a name and lines
StoreRecord(st) ==
    IF Truthy(st.current_name) /\ st.current_seq # <<>>
    THEN DictSet(st.sequences, st.current_name[1], Join(st.current_seq))
    ELSE st.sequences

\* lines 302-312: one iteration of the loop over the lines
ParseLine(st, raw) ==
    LET line == Strip(raw)
    IN  IF line # <<>> /\ line[1] = ">"
        THEN LET stored == StoreRecord(st)
             IN  [sequences    |-> stored,
                  current_name |-> Some(HeaderName(line, stored)),
                  current_seq  |-> <<>>]
        ELSE IF line # <<>> /\ Truthy(st.current_name)
             THEN [st EXCEPT !.current_seq = Append(@, CleanLine(line))]
             ELSE st

RECURSIVE ParseLines(_, _)
ParseLines(st, lines) ==
    IF lines = <<>> THEN st ELSE ParseLines(ParseLine(st, Head(lines)), Tail(lines))

\* mutant: the record open at the end of the text is not stored
FinishParseDropsLast(st) == st.sequences

\* lines 314-317: the last record is stored and the dict returned
FinishParse(st) == StoreRecord(st)

\* the returned dict, as the sequence of its <<name, sequence>> items
parse_fasta_text(text) ==
    FinishParse(ParseLines([sequences |-> <<>>, current_name |-> None, current_seq |-> <<>>],
                           Split(Strip(text), "\n")))

\* largest number of records of a pasted text
MaxRecords == 2

\* header lines: two names, no name, a name between blanks; and no header
\* line at all (lines before the first header, or more lines of a record)
HeaderLines ==
    { <<>>,
      << <<">","S","e","q","u","e","n","c","e","_","1">> >>,
      << <<">","s","2">> >>,
      << <<">">> >>,
      << <<">"," ","s","2"," ">> >> }

\* the lines under a header: none, a short line with lower case, a blank, a
\* digit and X, ten letters followed by a blank line, and both around a
\* blank line
TenLetters == <<"A","C","D","E","F","G","H","I","K","L">>

MixedLine == <<"m","n"," ","p","q","1","x">>

BodyLines ==
    { <<>>,
      <<MixedLine>>,
      <<TenLetters, <<>>>>,
      <<MixedLine, <<>>, TenLetters>> }

RecordLines == {h \o b : h \in HeaderLines, b \in BodyLines}

\* the lines of all texts of at most n records
RECURSIVE FastaLines(_)
FastaLines(n) ==
    IF n = 0 THEN {<<>>}
    ELSE LET shorter == FastaLines(n - 1)
         IN  shorter \cup {ls \o r : ls \in shorter, r \in RecordLines}

InitFasta ==
    /\ PredictorConstructed
    /\ window_size = DefaultWindowSize
    /\ step_size = DefaultStepSize
    /\ NoRequest
    /\ encode_call = NoEncodeCall
    /\ markup_call = NoMarkupCall
    /\ fasta_call \in {[lines |-> ls, text |-> JoinLines(ls), result |-> None, errors |-> None] :
                          ls \in FastaLines(MaxRecords)}
    /\ download_call = NoDownloadCall

\* test_app.py line 100: sequences = parse_fasta_text(test_fasta)
FastaParse ==
    /\ fasta_call.result = None
    /\ fasta_call' = [fasta_call EXCEPT !.result = Some(parse_fasta_text(fasta_call.text))]
    /\ UNCHANGED <<confidence_threshold, window_size, step_size, frame, set_call,
                   appvars, encode_call, markup_call, download_call>>

\* test_app.py line 104: errors = validate_sequences(sequences)
FastaValidate ==
    /\ fasta_call.result # None
    /\ fasta_call.errors = None
    /\ fasta_call' = [fasta_call EXCEPT !.errors = Some(validate_sequences(fasta_call.result[1]))]
    /\ UNCHANGED <<confidence_threshold, window_size, step_size, frame, set_call,
                   appvars, encode_call, markup_call, download_call>>

NextFasta == FastaParse \/ FastaValidate

SpecFasta == InitFasta /\ [][NextFasta]_vars


\* the lines a text was written from, and what they are
IsHeaderLine(line) == line # <<>> /\ line[1] = ">"

IsBlankLine(line) == \A k \in 1..Len(line) : line[k] \in Whitespace

IsSequenceLine(line) == ~IsBlankLine(line) /\ ~IsHeaderLine(line)

\* a header line with nothing but blanks after '>'
IsNamelessHeader(line) == IsHeaderLine(line) /\ IsBlankLine(Tail(line))

\* a name of the form Sequence_<number>
IsPlaceholderName(name) ==
    /\ Len(name) > 9
    /\ SubSeq(name, 1, 9) = <<"S", "e", "q", "u", "e", "n", "c", "e", "_">>
    /\ \A k \in 10..Len(name) : name[k] \in Range(Digits)

(***************************************************************************)
(* C18: every sequence name parse_fasta_text produces is a non-empty       *)
(* string; a record whose header line carries no name is stored under a    *)
(* placeholder name, not under an empty key.                               *)
(***************************************************************************)
C18_NamesNonEmpty ==
    fasta_call.result # None =>
        LET parsed == fasta_call.result[1]
            lines  == fasta_call.lines
        IN  /\ \A name \in Keys(parsed) : name # <<>>
            /\ \A i \in 1..(Len(lines) - 1) :
                   (IsNamelessHeader(lines[i]) /\ IsSequenceLine(lines[i + 1])) =>
                       \E name \in Keys(parsed) : IsPlaceholderName(name)

\* the record ">s2" and a record without a name: the latter is Sequence_2
C18_Witness ==
    /\ fasta_call.result # None
    /\ fasta_call.lines # <<>>
    /\ fasta_call.lines[1] = <<">", "s", "2">>
    /\ \E i \in 1..Len(fasta_call.lines) : IsNamelessHeader(fasta_call.lines[i])
    /\ Keys(fasta_call.result[1]) =
           { <<"s", "2">>, <<"S", "e", "q", "u", "e", "n", "c", "e", "_", "2">> }

\* the places of the header lines
HeaderIndices(lines) == {i \in 1..Len(lines) : IsHeaderLine(lines[i])}

\* the last line of the record whose header is line i
RecordEnd(lines, i) ==
    IF \E h \in HeaderIndices(lines) : h > i
    THEN (CHOOSE h \in HeaderIndices(lines) :
              h > i /\ \A g \in HeaderIndices(lines) : g > i => h <= g) - 1
    ELSE Len(lines)

\* well-formed text: it starts with a header, every header has a name
\* without blanks around it, names differ, and every record has a sequence
\* line; blank lines may stand anywhere
WellFormed(lines) ==
    /\ 1 \in HeaderIndices(lines)
    /\ \A i \in HeaderIndices(lines) :
           LET name == Tail(lines[i])
           IN  /\ name # <<>>
               /\ name[1] \notin Whitespace
               /\ name[Len(name)] \notin Whitespace
    /\ \A i, j \in HeaderIndices(lines) : Tail(lines[i]) = Tail(lines[j]) => i = j
    /\ \A i \in HeaderIndices(lines) :
           \E j \in (i + 1)..RecordEnd(lines, i) : IsSequenceLine(lines[j])

\* the letters of the record whose header is line i: its lines put
\* together, upper-cased, only the 20 letters kept
ExpectedSequence(lines, i) ==
    LET flat == Join(SubSeq(lines, i + 1, RecordEnd(lines, i)))
    IN  SelectSeq([k \in 1..Len(flat) |-> Upper(flat[k])],
                  LAMBDA c : c \in Range(AminoLetters))

(***************************************************************************)
(* C20: parse_fasta_text turns well-formed multi-record FASTA text into    *)
(* one entry per header line, in the order of the headers, keyed by the    *)
(* header text after '>', whose value is the concatenation in order of the *)
(* record's lines, upper-cased and with every character outside the 20     *)
(* letters removed; blank lines are ignored; validate_sequences reports no *)
(* error for the parsed sequences when each has length in [10, 6000],      *)
(* there are at most 50 and their total length is at most 300000.          *)
(***************************************************************************)
C20_WellFormedFasta ==
    (fasta_call.result # None /\ WellFormed(fasta_call.lines)) =>
        LET parsed  == fasta_call.result[1]
            lines   == fasta_call.lines
            rank(i) == Cardinality({h \in HeaderIndices(lines) : h <= i})
        IN  /\ Len(parsed) = Cardinality(HeaderIndices(lines))
            /\ \A i \in HeaderIndices(lines) :
                   parsed[rank(i)] = <<Tail(lines[i]), ExpectedSequence(lines, i)>>
            /\ (/\ fasta_call.errors # None
                /\ Len(parsed) <= 50
                /\ TotalLength(parsed) <= 300000
                /\ \A k \in 1..Len(parsed) :
                       10 <= Len(parsed[k][2]) /\ Len(parsed[k][2]) <= 6000) =>
                   fasta_call.errors[1] = <<>>

\* two records with a blank line between them have been parsed and
\* validated without errors
C20_Witness ==
    /\ WellFormed(fasta_call.lines)
    /\ Cardinality(HeaderIndices(fasta_call.lines)) = 2
    /\ \E j \in 1..Len(fasta_call.lines) :
           /\ fasta_call.lines[j] = <<>>
           /\ \E h \in HeaderIndices(fasta_call.lines) : h = j + 1
    /\ fasta_call.result # None
    /\ Len(fasta_call.result[1]) = 2
    /\ fasta_call.errors = Some(<<>>)


(***************************************************************************)
(* C22: when calls do not overlap, predict_epitopes leaves the predictor's *)
(* confidence_threshold as it found it: once the call has ended, by a      *)
(* normal return or by the classifier's error, the field has the value it  *)
(* had when the call began; a call with threshold=None never writes the    *)
(* field, which keeps that value all through the call.                     *)
(***************************************************************************)
C22_ThresholdRestored ==
    \A t \in {MainThread} :
        /\ frame[t].pc \in {"returned", "raised"} =>
               confidence_threshold = frame[t].entry_threshold
        /\ (frame[t].pc # "idle" /\ frame[t].threshold = None) =>
               confidence_threshold = frame[t].entry_threshold

\* a call that found 0.9, overrode it with 0.5 and ended by the classifier's
\* error
C22_Witness ==
    /\ frame[MainThread].pc = "raised"
    /\ frame[MainThread].threshold = Some(5)
    /\ frame[MainThread].entry_threshold = 9
    /\ frame[MainThread].model_calls = 1
    /\ confidence_threshold = 9


\* no predict_epitopes call is in progress in any thread
AllFinished == \A t \in Threads : frame[t].pc \in {"idle", "returned", "raised"}

(***************************************************************************)
(* C23: after any set of predict_epitopes calls with threshold overrides   *)
(* on the one shared predictor, overlapping in any interleaving, once all  *)
(* of them have finished the predictor's confidence_threshold equals the   *)
(* value it had before the first of them started (0.5, the value of        *)
(* __init__: nothing else writes the field here).                          *)
(***************************************************************************)
C23_ThresholdRestoredConcurrent ==
    AllFinished => confidence_threshold = DefaultThreshold


\* the header lines that carry a name, and the name they carry
NamedHeaders(lines) == {i \in HeaderIndices(lines) : ~IsNamelessHeader(lines[i])}

NameOf(line) ==
    LET rest  == Tail(line)
        first == CHOOSE k \in 1..Len(rest) :
                     rest[k] \notin Whitespace /\ \A j \in 1..(k - 1) : rest[j] \in Whitespace
        last  == CHOOSE k \in 1..Len(rest) :
                     rest[k] \notin Whitespace /\ \A j \in (k + 1)..Len(rest) : rest[j] \in Whitespace
    IN  SubSeq(rest, first, last)

\* the records (by header line) that have at least one sequence line
RecordsWithLines(lines) ==
    {i \in HeaderIndices(lines) :
        \E j \in (i + 1)..RecordEnd(lines, i) : IsSequenceLine(lines[j])}

(***************************************************************************)
(* C24: in parse_fasta_text a placeholder name given to a record with an   *)
(* empty header never equals the name of another record of the same input, *)
(* so no record is overwritten by a placeholder-named one: for input whose *)
(* named headers are pairwise distinct the result has one entry per record *)
(* that has at least one sequence line.                                    *)
(***************************************************************************)
C24_PlaceholderUnique ==
    (/\ fasta_call.result # None
     /\ \A i, j \in NamedHeaders(fasta_call.lines) :
            NameOf(fasta_call.lines[i]) = NameOf(fasta_call.lines[j]) => i = j) =>
        Len(fasta_call.result[1]) = Cardinality(RecordsWithLines(fasta_call.lines))


(***************************************************************************)
(* app.py: download_results, lines 263-293, beside a prediction request    *)
(***************************************************************************)
\* str.lower() on one character
Lower(c) ==
    IF c \in Range(UpperLetters)
    THEN LowerLetters[CHOOSE k \in 1..Len(UpperLetters) : UpperLetters[k] = c]
    ELSE c

LowerStr(s) == [k \in 1..Len(s) |-> Lower(s[k])]

\* the job id of the request and one no request has
DownloadJobIds == {JobId, "other"}

DownloadFormats == { <<"c", "s", "v">>, <<"J", "S", "O", "N">>, <<"x", "m", "l">> }

\* lines 269-289: without the file of the job, or with an unknown format,
\* the answer is a redirect; otherwise the stored results are sent
download_results(job_id, format) ==
    /\ download_call.outcome = "none"
    /\ LET found == {f \in results_files : f.job_id = job_id}
           kind  == IF found = {} THEN "redirect"
                    ELSE IF LowerStr(format) = <<"c", "s", "v">> THEN "csv"
                    ELSE IF LowerStr(format) = <<"j", "s", "o", "n">> THEN "json"
                    ELSE "redirect"
       IN  download_call' =
               [job_id  |-> Some(job_id),
                format  |-> Some(format),
                at      |-> req_pc,
                outcome |-> kind,
                data    |-> IF kind = "redirect" THEN None
                            ELSE Some((CHOOSE f \in found : TRUE).results)]
    /\ UNCHANGED <<confidence_threshold, window_size, step_size, frame, set_call,
                   appvars, encode_call, markup_call, fasta_call>>

\* largest number of sequences of a request that is followed by a download
MaxDownloadSeqs == 2

\* a sequence without a window, one with one window, one below the minimum
\* length of validate_sequences and one with characters it rejects
DownloadSequences ==
    {Pattern(InsulinA, DefaultWindowSize - 1), Pattern(InsulinA, DefaultWindowSize),
     Pattern(InsulinA, MinSequenceLength - 1), Pattern(Mixed, DefaultWindowSize)}

DownloadRequests ==
    UNION {{[k \in 1..n |-> <<SeqName(k), f[k]>>] : f \in [1..n -> DownloadSequences]} :
           n \in 0..MaxDownloadSeqs}

InitDownload ==
    /\ Init
    /\ window_size = DefaultWindowSize
    /\ step_size = DefaultStepSize

NextDownload ==
    \/ \E items \in DownloadRequests : Receive(items)
    \/ Validate
    \/ LoopCall(MainThread)
    \/ EarlyReturn(MainThread)
    \/ Enumerate(MainThread)
    \/ \E v \in ConcProbVectors : Classify(MainThread, <<v>>)
    \/ ClassifyRaise(MainThread)
    \/ LoopStep(MainThread)
    \/ SortReturn(MainThread)
    \/ Finally(MainThread)
    \/ LoopReturn(MainThread)
    \/ LoopExcept(MainThread)
    \/ AfterLoop
    \/ \E job_id \in DownloadJobIds, format \in DownloadFormats :
          download_results(job_id, format)

SpecDownload == InitDownload /\ [][NextDownload]_vars

\* the loop of the request was entered and every prediction raised
AllFailed ==
    /\ req_pc = "done"
    /\ outcomes # <<>>
    /\ \A k \in 1..Len(outcomes) : outcomes[k].raised

SomeSucceeded == \E k \in 1..Len(outcomes) : ~outcomes[k].raised

(***************************************************************************)
(* C25: a prediction request stores a results file and renders results     *)
(* only if at least one submitted sequence was predicted successfully;     *)
(* when prediction fails for every sequence the request ends with the      *)
(* error redirect and no results file is written, so a download, for any   *)
(* job id, never returns results of a request in which all sequences       *)
(* failed.                                                                 *)
(***************************************************************************)
C25_NoResultsWhenAllFailed ==
    /\ (response = "results" \/ results_files # {}) => SomeSucceeded
    /\ AllFailed =>
           /\ response = "redirect"
           /\ results_files = {}
    /\ download_call.outcome \in {"csv", "json"} =>
           /\ SomeSucceeded
           /\ download_call.job_id = Some(JobId)
           /\ download_call.data[1] # <<>>
           /\ Keys(download_call.data[1]) = ReturnedNames

\* both sequences of a request failed, and the download of its job id,
\* asked for after the request had ended, found nothing
C25_Witness ==
    /\ AllFailed
    /\ Len(outcomes) = 2
    /\ download_call.at = "done"
    /\ download_call.job_id = Some(JobId)
    /\ download_call.format = Some(<<"J", "S", "O", "N">>)
    /\ download_call.outcome = "redirect"

\* the letters validate_sequences accepts, in either case
ValidAnyCase ==
    Range(AminoLetters) \cup {LowerLetters[k] : k \in {j \in 1..26 : UpperLetters[j] \in Range(AminoLetters)}}

\* the request's sequences break one of the limits of validate_sequences
BreaksLimits(items) ==
    \/ Len(items) > 50
    \/ TotalLength(items) > 300000
    \/ \E k \in 1..Len(items) :
           \/ Len(items[k][2]) < 10
           \/ Len(items[k][2]) > 6000
           \/ \E j \in 1..Len(items[k][2]) : items[k][2][j] \notin ValidAnyCase

(***************************************************************************)
(* C21: in a prediction request validation comes before all prediction     *)
(* work and is all-or-nothing: when the submitted sequences break a limit  *)
(* of validate_sequences (more than 50, total over 300000, one shorter     *)
(* than 10 or longer than 6000, an invalid character) the request ends     *)
(* with the redirect and predict_epitopes is entered for none of them, the *)
(* valid ones included; so every sequence that reaches predict_epitopes    *)
(* has length in [10, 6000].                                               *)
(***************************************************************************)
C21_ValidationFirst ==
    /\ req_pc \in {"idle", "received"} =>
           /\ frame[MainThread].pc = "idle"
           /\ outcomes = <<>>
    /\ (req_pc \notin {"idle", "received"} /\ BreaksLimits(sequences)) =>
           /\ req_pc = "done"
           /\ response = "redirect"
           /\ frame[MainThread].pc = "idle"
           /\ frame[MainThread].model_calls = 0
           /\ outcomes = <<>>
           /\ results_files = {}
    /\ frame[MainThread].pc # "idle" =>
           /\ 10 <= Len(frame[MainThread].sequence)
           /\ Len(frame[MainThread].sequence) <= 6000

\* a request with a valid first and a too short second sequence was rejected
C21_Witness ==
    /\ req_pc = "done"
    /\ response = "redirect"
    /\ Len(sequences) = 2
    /\ sequences[1][2] = Pattern(InsulinA, 20)
    /\ Len(sequences[2][2]) = 9
    /\ outcomes = <<>>
====
